---- MODULE Spec2Model ----
(***************************************************************************)
(* A model of check_cpu.py: a Nagios probe that reads /proc/stat twice,    *)
(* derives busy / io-wait / steal percentages per CPU id, compares them    *)
(* with thresholds and prints one status line.                             *)
(*                                                                         *)
(* Numbers that Python computes with true division are kept as exact       *)
(* fractions [num, den]; a comparison with an integer threshold is done by *)
(* cross-multiplication, which agrees with the float comparison because    *)
(* the thresholds are integers and float division rounds monotonically.    *)
(***************************************************************************)
EXTENDS Integers, Sequences, FiniteSets, TLC

(* ------------------------------------------------------------------ *)
(* Nagios return codes (check_cpu.py 27-30)                             *)
(* ------------------------------------------------------------------ *)
UNKNOWN == 3
OK == 0
WARNING == 1
CRITICAL == 2

(* ------------------------------------------------------------------ *)
(* Bounds of the model                                                  *)
(* ------------------------------------------------------------------ *)
\* number of individual cores a sampled /proc/stat text may list
MaxCores == 2
\* largest tick count of one counter in the exhaustive rate inputs
MaxTick == 2

VARIABLES
    \* module globals of check_cpu.py (lines 58-77)
    cpu_percent, io_wait_percent, steal_percent, cpu_id_list,
    ctxt_per_second, processes_per_second, cpu_stats_t1,
    warn, crit, per_cpu_warn, per_cpu_crit, io_warn, io_crit,
    io_warn_overall, io_crit_overall, steal_warn, steal_crit,
    sample_period, perfdata_abs,
    \* locals of get_cpu_stats() and main()
    cpu_stats_t0, perf_message, exit_code, result_message,
    \* the process and its environment
    pc,        \* the statement main() is about to execute
    procstat,  \* what each read of proc_stat_file returned, in order
    slept,     \* seconds spent in time.sleep
    stdout,    \* lines printed
    stderr,    \* uncaught-exception tracebacks written by the interpreter
    status,    \* process exit status (-1 while running)
    trace      \* the events of the run, in order

thresholds == <<warn, crit, per_cpu_warn, per_cpu_crit, io_warn, io_crit,
                io_warn_overall, io_crit_overall, steal_warn, steal_crit>>
options == <<thresholds, sample_period, perfdata_abs>>
rates == <<cpu_percent, io_wait_percent, steal_percent,
           ctxt_per_second, processes_per_second>>
snapshots == <<cpu_id_list, cpu_stats_t0, cpu_stats_t1, procstat>>
report == <<perf_message, exit_code, result_message>>
process == <<slept, stdout, stderr, status>>
vars == <<options, rates, snapshots, report, process, pc, trace>>

(* ------------------------------------------------------------------ *)
(* Python values                                                        *)
(* ------------------------------------------------------------------ *)
\* dict(): a function with an empty domain
EmptyDict == <<>>

Put(d, k, v) == [x \in (DOMAIN d) \cup {k} |-> IF x = k THEN v ELSE d[x]]

\* the value of n / d under true division, d # 0
Frac(n, d) == [num |-> n, den |-> d]

\* the int 0 that get_cpu_stats stores when delta_total <= 0
Zero == Frac(0, 1)

\* x >= t for a fraction x and an integer t
Geq(x, t) ==
    IF x.den > 0 THEN x.num >= t * x.den ELSE x.num <= t * x.den

(* ------------------------------------------------------------------ *)
(* command_line_validate (check_cpu.py 159-195)                         *)
(* ------------------------------------------------------------------ *)
\* the option letters of getopt's 'w:c:W:C:i:I:s:S:p:VaA'
ShortOpts == {"-w", "-c", "-W", "-C", "-i", "-I", "-s", "-S", "-p",
              "-V", "-a", "-A"}

\* getopt's long option list
LongOpts == {"--warn", "--crit", "--warn-any", "--crit-any", "--io-warn",
             "--io-crit", "--io-warn-overall", "--io-crit-overall",
             "--steal-warn", "--steal-crit", "--period", "--version",
             "--abs", "--abs-only"}

\* one (opt, arg) pair as getopt returns it; arg is the text after int()
Opt(o, a) == [opt |-> o, arg |-> a]

\* the command lines the model runs the probe with
ArgvSamples ==
    { <<>>,
      <<Opt("-w", 50), Opt("-c", 75)>>,
      <<Opt("--warn", 90), Opt("--crit", 95), Opt("-W", 100), Opt("-C", 100),
        Opt("-i", 20), Opt("-I", 40), Opt("-s", 10), Opt("-S", 20)>>,
      <<Opt("--warn-any", 60), Opt("--crit-any", 100),
        Opt("--io-warn", 30), Opt("--io-crit", 60),
        Opt("--io-warn-overall", 20), Opt("--io-crit-overall", 40),
        Opt("--steal-warn", 10), Opt("--steal-crit", 30),
        Opt("--period", 2)>>,
      <<Opt("-A", 0)>>,
      <<Opt("-a", 0), Opt("--abs", 0)>>,
      <<Opt("--abs-only", 0), Opt("-p", 0)>>,
      <<Opt("-w", 50), Opt("-V", 0), Opt("-c", 75)>>,
      <<Opt("--version", 0)>>,
      <<Opt("-w", 50), Opt("-z", 0)>> }

\* getopt.getopt raises GetoptError on an option it does not know
GetoptError(argv) ==
    \E i \in 1..Len(argv) : argv[i].opt \notin ShortOpts \cup LongOpts

\* the body of the for loop: one branch of the if / elif chain.
\* g holds the globals; g.exit records the sys.exit(OK) of -V.
\* The two tests `opt in ('--io-warn-overall')` and
\* `opt in ('--io-crit-overall')` are substring tests on a string; among the
\* options getopt can return, only -w / -c are substrings besides the option
\* itself, and an earlier branch has taken those.
ApplyOpt(g, o) ==
    IF      o.opt \in {"-w", "--warn"}      THEN [g EXCEPT !.warn = o.arg]
    ELSE IF o.opt \in {"-c", "--crit"}      THEN [g EXCEPT !.crit = o.arg]
    ELSE IF o.opt \in {"-W", "--warn-any"}  THEN [g EXCEPT !.per_cpu_warn = o.arg]
    ELSE IF o.opt \in {"-C", "--crit-any"}  THEN [g EXCEPT !.per_cpu_crit = o.arg]
    ELSE IF o.opt \in {"-i", "--io-warn"}   THEN [g EXCEPT !.io_warn = o.arg]
    ELSE IF o.opt \in {"-I", "--io-crit"}   THEN [g EXCEPT !.io_crit = o.arg]
    ELSE IF o.opt = "--io-warn-overall"     THEN [g EXCEPT !.io_warn_overall = o.arg]
    ELSE IF o.opt = "--io-crit-overall"     THEN [g EXCEPT !.io_crit_overall = o.arg]
    ELSE IF o.opt \in {"-s", "--steal-warn"} THEN [g EXCEPT !.steal_warn = o.arg]
    ELSE IF o.opt \in {"-S", "--steal-crit"} THEN [g EXCEPT !.steal_crit = o.arg]
    ELSE IF o.opt \in {"-p", "--period"}    THEN [g EXCEPT !.sample_period = o.arg]
    ELSE IF o.opt \in {"-a", "--abs"}       THEN [g EXCEPT !.perfdata_abs = 3]
    ELSE IF o.opt \in {"-A", "--abs-only"}  THEN [g EXCEPT !.perfdata_abs = 2]
    ELSE IF o.opt \in {"-V", "--version"}   THEN [g EXCEPT !.exit = TRUE]
    ELSE g

\* the for loop over opts; sys.exit in the -V branch ends it
RECURSIVE ApplyOpts(_, _)
ApplyOpts(g, argv) ==
    IF argv = <<>> \/ g.exit THEN g
    ELSE ApplyOpts(ApplyOpt(g, Head(argv)), Tail(argv))

\* the globals command_line_validate declares, as the loop sees them
Globals ==
    [warn |-> warn, crit |-> crit,
     per_cpu_warn |-> per_cpu_warn, per_cpu_crit |-> per_cpu_crit,
     io_warn |-> io_warn, io_crit |-> io_crit,
     io_warn_overall |-> io_warn_overall, io_crit_overall |-> io_crit_overall,
     steal_warn |-> steal_warn, steal_crit |-> steal_crit,
     sample_period |-> sample_period, perfdata_abs |-> perfdata_abs,
     exit |-> FALSE]

SetGlobals(g) ==
    /\ warn' = g.warn
    /\ crit' = g.crit
    /\ per_cpu_warn' = g.per_cpu_warn
    /\ per_cpu_crit' = g.per_cpu_crit
    /\ io_warn' = g.io_warn
    /\ io_crit' = g.io_crit
    /\ io_warn_overall' = g.io_warn_overall
    /\ io_crit_overall' = g.io_crit_overall
    /\ steal_warn' = g.steal_warn
    /\ steal_crit' = g.steal_crit
    /\ sample_period' = g.sample_period
    /\ perfdata_abs' = g.perfdata_abs

\* main() line 199: command_line_validate(argv)
CommandLineValidate ==
    /\ pc = "command_line_validate"
    /\ \E argv \in ArgvSamples :
         IF GetoptError(argv)
         THEN \* print(usage); sys.exit(CRITICAL)
              /\ stdout' = Append(stdout, [kind |-> "usage"])
              /\ status' = CRITICAL
              /\ pc' = "exited"
              /\ trace' = trace \o <<"usage", "exit">>
              /\ UNCHANGED options
         ELSE LET g == ApplyOpts(Globals, argv) IN
              /\ SetGlobals(g)
              /\ IF g.exit
                 THEN \* print(Version); sys.exit(OK)
                      /\ stdout' = Append(stdout, [kind |-> "version"])
                      /\ status' = OK
                      /\ pc' = "exited"
                      /\ trace' = trace \o <<"version", "exit">>
                 ELSE /\ pc' = "capture_t0"
                      /\ trace' = Append(trace, "options")
                      /\ UNCHANGED <<stdout, status>>
    /\ UNCHANGED <<rates, snapshots, report, slept, stderr>>

(* ------------------------------------------------------------------ *)
(* The statistics source: /proc/stat texts                              *)
(* ------------------------------------------------------------------ *)
\* one line of text: its first token and the integers after it
Line(tok, nums) == [tok |-> tok, nums |-> nums]

\* names of the individual cores, in the kernel's order
CoreIds == <<"cpu0", "cpu1", "cpu2", "cpu3">>

\* the first tokens for which line.startswith('cpu') holds
CpuToks == {"cpu"} \cup {CoreIds[i] : i \in 1..Len(CoreIds)}

\* ten counters: user, nice, system, idle, io_wait, hw_intr, sw_intr, steal,
\* guest, guest_nice, with only four of them non-zero
Ticks(user, idle, io_wait, steal) ==
    <<user, 0, 0, idle, io_wait, 0, 0, steal, 0, 0>>

\* the counters of one core in the sampled texts; the second is the short line
\* of an old kernel (one field)
TickSamples ==
    { Ticks(0, 0, 0, 0), <<2>>, Ticks(0, 3, 0, 0), Ticks(1, 1, 2, 1) }

RECURSIVE SumSeq(_)
SumSeq(s) == IF s = <<>> THEN 0 ELSE Head(s) + SumSeq(Tail(s))

\* lines 103-104: while len(cpu_ticks_array) < 10: append(0)
Pad(ticks) == [i \in 1..10 |-> IF i <= Len(ticks) THEN ticks[i] ELSE 0]

\* the kernel's aggregate line: the sum over the cores, counter by counter
Aggregate(cores) ==
    [i \in 1..10 |-> SumSeq([c \in 1..Len(cores) |-> Pad(cores[c])[i]])]

\* a well-formed text: the aggregate line, one line per core, then intr,
\* ctxt, btime and processes
NormalText(cores) ==
    <<Line("cpu", Aggregate(cores))>>
    \o [c \in 1..Len(cores) |-> Line(CoreIds[c], cores[c])]
    \o <<Line("intr", <<9, 9>>),
         Line("ctxt", <<700 + SumSeq(Aggregate(cores))>>),
         Line("btime", <<1700000000>>),
         Line("processes", <<50 + SumSeq(Aggregate(cores))>>)>>

\* texts that depart from the layout: no ctxt line; the ctxt line before any
\* cpu line; a cpu line without counters
OddTexts ==
    { <<Line("cpu", Ticks(1, 1, 0, 0)), Line("processes", <<50>>)>>,
      <<Line("ctxt", <<700>>), Line("cpu", Ticks(1, 1, 0, 0)),
        Line("processes", <<50>>)>>,
      <<Line("cpu", <<>>), Line("ctxt", <<700>>), Line("processes", <<50>>)>> }

\* what proc_stat_file may hold at a read
Texts ==
    { NormalText(cores) :
        cores \in UNION { [1..n -> TickSamples] : n \in 1..MaxCores } }
    \cup OddTexts

\* texts with the aggregate line only, every counter combination up to
\* MaxTick, full and short (four fields)
RateTexts ==
    { <<Line("cpu", t), Line("ctxt", <<700>>), Line("processes", <<50>>)>> :
        t \in { Ticks(u, i, w, s) : u \in 0..MaxTick, i \in 0..MaxTick,
                                    w \in 0..MaxTick, s \in 0..MaxTick }
              \cup { <<u, 0, 0, i>> : u \in 0..MaxTick, i \in 0..MaxTick } }

(* ------------------------------------------------------------------ *)
(* get_procstat_now (check_cpu.py 79-113)                               *)
(* ------------------------------------------------------------------ *)
\* the key cpu_id + suffix of the cpu_stats dict; 'ctxt' and 'processes'
\* are Key("ctxt", "") and Key("processes", "")
Key(id, suffix) == <<id, suffix>>

\* the state of the loop over the lines: the dict, the id list, the local
\* `parts` (unbound until a cpu line is split) and the exception raised
ParseStart ==
    [cpu_stats |-> EmptyDict, cpu_id_list |-> <<>>,
     bound |-> FALSE, parts |-> <<>>, err |-> ""]

\* lines 102-112: the counters of a cpu line
RecordCpu(st, cpu_id, cpu_ticks) ==
    IF Len(cpu_ticks) > 10
    THEN \* unpacking more than ten values
         [st EXCEPT !.err = "ValueError"]
    ELSE LET cpu_ticks_array == Pad(cpu_ticks)
             idle == cpu_ticks_array[4]
             io_wait == cpu_ticks_array[5]
             steal == cpu_ticks_array[8]
             cpu_usage == SumSeq(cpu_ticks_array) - idle
             cpu_total_ticks == SumSeq(cpu_ticks_array)
             d1 == Put(st.cpu_stats, Key(cpu_id, ""), cpu_usage)
             d2 == Put(d1, Key(cpu_id, "all"), cpu_total_ticks)
             d3 == Put(d2, Key(cpu_id, "io_wait"), io_wait)
             d4 == Put(d3, Key(cpu_id, "steal"), steal)
         IN [st EXCEPT !.cpu_stats = d4,
                       !.cpu_id_list = Append(st.cpu_id_list, cpu_id)]

\* lines 94-99: cpu_stats[name] = parts[1], where `parts` is whatever the
\* last cpu line left in it: the ctxt / processes line itself is never split
RecordScalar(st, name) ==
    IF ~st.bound THEN [st EXCEPT !.err = "UnboundLocalError"]
    ELSE IF Len(st.parts) < 1 THEN [st EXCEPT !.err = "IndexError"]
    ELSE [st EXCEPT !.cpu_stats = Put(st.cpu_stats, Key(name, ""), st.parts[1])]

\* lines 86-112: one iteration of the loop. parts[1:] is kept as `parts`
\* (parts[0] is the token), so Python's parts[1] is parts[1] here.
ParseLine(st, line) ==
    IF line.tok \in CpuToks
    THEN RecordCpu([st EXCEPT !.bound = TRUE, !.parts = line.nums],
                   line.tok, line.nums)
    ELSE IF line.tok = "ctxt" THEN RecordScalar(st, "ctxt")
    ELSE IF line.tok = "processes" THEN RecordScalar(st, "processes")
    ELSE st

\* line 85: for line in procstat_text.split("\n"), until an exception
RECURSIVE ParseText(_, _)
ParseText(st, text) ==
    IF text = <<>> \/ st.err # "" THEN st
    ELSE ParseText(ParseLine(st, Head(text)), Tail(text))

\* a read of proc_stat_file: open() raises OSError, or the file's text
Unavailable == [ok |-> FALSE, text |-> <<>>]

Readable(text) == [ok |-> TRUE, text |-> text]

\* get_procstat_now() on one read: the id list it leaves in the global (reset
\* at line 81, before the open), the dict it returns, the exception it raises
GetProcstatNow(read) ==
    IF ~read.ok
    THEN [ParseStart EXCEPT !.err = "OSError"]
    ELSE ParseText(ParseStart, read.text)

(* ------------------------------------------------------------------ *)
(* The interpreter: an exception nobody catches                         *)
(* ------------------------------------------------------------------ *)
\* the traceback goes to stderr and the process exits with status 1
Uncaught(exception) ==
    /\ stderr' = Append(stderr, exception)
    /\ status' = 1
    /\ pc' = "exited"
    /\ trace' = Append(trace, "traceback")

(* ------------------------------------------------------------------ *)
(* get_cpu_stats (check_cpu.py 115-133)                                 *)
(* ------------------------------------------------------------------ *)
\* line 117: cpu_stats_t0 = get_procstat_now()
CaptureT0In(texts) ==
    /\ pc = "capture_t0"
    /\ \E read \in {Unavailable} \cup {Readable(t) : t \in texts} :
         LET st == GetProcstatNow(read) IN
         /\ procstat' = Append(procstat, read)
         /\ cpu_id_list' = st.cpu_id_list
         /\ IF st.err # ""
            THEN /\ Uncaught(st.err)
                 /\ UNCHANGED cpu_stats_t0
            ELSE /\ cpu_stats_t0' = st.cpu_stats
                 /\ pc' = "sleep"
                 /\ trace' = Append(trace, "capture")
                 /\ UNCHANGED <<stderr, status>>
    /\ UNCHANGED <<options, rates, cpu_stats_t1, report, slept, stdout>>

CaptureT0 == CaptureT0In(Texts)

\* line 118: time.sleep(sample_period)
Sleep ==
    /\ pc = "sleep"
    /\ IF sample_period < 0
       THEN /\ Uncaught("ValueError")
            /\ UNCHANGED slept
       ELSE /\ slept' = slept + sample_period
            /\ pc' = "capture_t1"
            /\ trace' = Append(trace, "sleep")
            /\ UNCHANGED <<stderr, status>>
    /\ UNCHANGED <<options, rates, snapshots, report, stdout>>

\* line 119: cpu_stats_t1 = get_procstat_now()
CaptureT1In(texts) ==
    /\ pc = "capture_t1"
    /\ \E read \in {Unavailable} \cup {Readable(t) : t \in texts} :
         LET st == GetProcstatNow(read) IN
         /\ procstat' = Append(procstat, read)
         /\ cpu_id_list' = st.cpu_id_list
         /\ IF st.err # ""
            THEN /\ Uncaught(st.err)
                 /\ UNCHANGED cpu_stats_t1
            ELSE /\ cpu_stats_t1' = st.cpu_stats
                 /\ pc' = "rates"
                 /\ trace' = Append(trace, "capture")
                 /\ UNCHANGED <<stderr, status>>
    /\ UNCHANGED <<options, rates, cpu_stats_t0, report, slept, stdout>>

CaptureT1 == CaptureT1In(Texts)

\* lines 125-127: (late - early) * 100 / delta_total
Percent(late, early, delta_total) == Frac((late - early) * 100, delta_total)

\* the guard of line 124 dropped to a test for a non-zero delta
CpuRatesNoClamp(t0, t1, cpu_id) ==
    LET delta_total == t1[Key(cpu_id, "all")] - t0[Key(cpu_id, "all")] IN
    IF delta_total # 0
    THEN [cpu |-> Percent(t1[Key(cpu_id, "")], t0[Key(cpu_id, "")], delta_total),
          io_wait |-> Percent(t1[Key(cpu_id, "io_wait")],
                              t0[Key(cpu_id, "io_wait")], delta_total),
          steal |-> Percent(t1[Key(cpu_id, "steal")],
                            t0[Key(cpu_id, "steal")], delta_total)]
    ELSE [cpu |-> Zero, io_wait |-> Zero, steal |-> Zero]

\* lines 121-131: the three percentages of one id present in both dicts
CpuRates(t0, t1, cpu_id) ==
    LET total_t1 == t1[Key(cpu_id, "all")]
        total_t0 == t0[Key(cpu_id, "all")]
        delta_total == total_t1 - total_t0
    IN
    IF delta_total > 0
    THEN [cpu |-> Percent(t1[Key(cpu_id, "")], t0[Key(cpu_id, "")], delta_total),
          io_wait |-> Percent(t1[Key(cpu_id, "io_wait")],
                              t0[Key(cpu_id, "io_wait")], delta_total),
          steal |-> Percent(t1[Key(cpu_id, "steal")],
                            t0[Key(cpu_id, "steal")], delta_total)]
    ELSE [cpu |-> Zero, io_wait |-> Zero, steal |-> Zero]

\* lines 120-131: the loop over cpu_id_list. cpu_stats_t0[cpu_id + 'all']
\* raises KeyError for an id the early dict does not hold; what the earlier
\* iterations stored in the global dicts stays.
RECURSIVE RateLoop(_, _, _, _)
RateLoop(acc, t0, t1, ids) ==
    IF ids = <<>> \/ acc.err # "" THEN acc
    ELSE LET cpu_id == Head(ids) IN
         IF Key(cpu_id, "all") \notin DOMAIN t0
         THEN [acc EXCEPT !.err = "KeyError"]
         ELSE LET r == CpuRates(t0, t1, cpu_id) IN
              RateLoop([acc EXCEPT
                          !.cpu_percent = Put(acc.cpu_percent, cpu_id, r.cpu),
                          !.io_wait_percent =
                              Put(acc.io_wait_percent, cpu_id, r.io_wait),
                          !.steal_percent =
                              Put(acc.steal_percent, cpu_id, r.steal)],
                       t0, t1, Tail(ids))

\* lines 132-133: (float(late[name]) - float(early[name])) / sample_period;
\* the exception it raises, or "" and the value
PerSecond(t0, t1, name) ==
    IF Key(name, "") \notin DOMAIN t1 \/ Key(name, "") \notin DOMAIN t0
    THEN [err |-> "KeyError", value |-> Zero]
    ELSE IF sample_period = 0
    THEN [err |-> "ZeroDivisionError", value |-> Zero]
    ELSE [err |-> "",
          value |-> Frac(t1[Key(name, "")] - t0[Key(name, "")], sample_period)]

\* lines 120-133: the rates from the two dicts
ComputeRates ==
    /\ pc = "rates"
    /\ LET loop == RateLoop([cpu_percent |-> cpu_percent,
                             io_wait_percent |-> io_wait_percent,
                             steal_percent |-> steal_percent, err |-> ""],
                            cpu_stats_t0, cpu_stats_t1, cpu_id_list)
           ctxt == PerSecond(cpu_stats_t0, cpu_stats_t1, "ctxt")
           processes == PerSecond(cpu_stats_t0, cpu_stats_t1, "processes")
       IN
       /\ cpu_percent' = loop.cpu_percent
       /\ io_wait_percent' = loop.io_wait_percent
       /\ steal_percent' = loop.steal_percent
       /\ IF loop.err # ""
          THEN /\ Uncaught(loop.err)
               /\ UNCHANGED <<ctxt_per_second, processes_per_second>>
          ELSE IF ctxt.err # ""
          THEN /\ Uncaught(ctxt.err)
               /\ UNCHANGED <<ctxt_per_second, processes_per_second>>
          ELSE IF processes.err # ""
          THEN /\ Uncaught(processes.err)
               /\ ctxt_per_second' = ctxt.value
               /\ UNCHANGED processes_per_second
          ELSE /\ ctxt_per_second' = ctxt.value
               /\ processes_per_second' = processes.value
               /\ pc' = "performance_data"
               /\ trace' = Append(trace, "rates")
               /\ UNCHANGED <<stderr, status>>
    /\ UNCHANGED <<options, snapshots, report, slept, stdout>>

(* ------------------------------------------------------------------ *)
(* performance_data (check_cpu.py 135-142)                              *)
(* ------------------------------------------------------------------ *)
\* the token f'{label}={value}%;{warn};{crit};0;100'
PerfToken(cpu_id, suffix, value, w, c) ==
    [label |-> <<cpu_id, suffix>>, value |-> value, uom |-> "%",
     warn |-> w, crit |-> c, min |-> 0, max |-> 100]

\* lines 138-141: three tokens per id of cpu_id_list, in its order
RECURSIVE PerformanceDataOf(_)
PerformanceDataOf(ids) ==
    IF ids = <<>> THEN <<>>
    ELSE LET cpu_id == Head(ids) IN
         <<PerfToken(cpu_id, "", cpu_percent[cpu_id], warn, crit),
           PerfToken(cpu_id, "_iowait", io_wait_percent[cpu_id],
                     io_warn, io_crit),
           PerfToken(cpu_id, "_steal", steal_percent[cpu_id],
                     steal_warn, steal_crit)>>
         \o PerformanceDataOf(Tail(ids))

\* main() line 201: perf_message = performance_data()
PerformanceData ==
    /\ pc = "performance_data"
    /\ perf_message' = PerformanceDataOf(cpu_id_list)
    /\ pc' = "check_status"
    /\ trace' = Append(trace, "perfdata")
    /\ UNCHANGED <<options, rates, snapshots, exit_code, result_message,
                   process>>

(* ------------------------------------------------------------------ *)
(* check_status (check_cpu.py 144-157)                                  *)
(* ------------------------------------------------------------------ *)
\* one message: '<level>: <cpu_id> CPU usage at <percent>% exceeds <level>
\* threshold of <threshold>%'
Message(level, cpu_id, percent, threshold) ==
    [level |-> level, cpu_id |-> cpu_id, percent |-> percent,
     threshold |-> threshold]

\* line 156: 'OK: CPU usage is within normal parameters'
OkMessage == Message("OK", "", Zero, 0)

\* the loop body leaving the loop once result is CRITICAL
CheckCpuFirstOnly(acc, cpu_id) ==
    IF acc.result = CRITICAL THEN acc
    ELSE IF Geq(cpu_percent[cpu_id], crit)
    THEN [result |-> CRITICAL,
          messages |-> Append(acc.messages,
              Message("CRITICAL", cpu_id, cpu_percent[cpu_id], crit))]
    ELSE IF Geq(cpu_percent[cpu_id], warn)
    THEN [result |-> WARNING,
          messages |-> Append(acc.messages,
              Message("WARNING", cpu_id, cpu_percent[cpu_id], warn))]
    ELSE acc

\* lines 149-154: the body of the loop, for one id
CheckCpu(acc, cpu_id) ==
    IF Geq(cpu_percent[cpu_id], crit)
    THEN [result |-> CRITICAL,
          messages |-> Append(acc.messages,
              Message("CRITICAL", cpu_id, cpu_percent[cpu_id], crit))]
    ELSE IF Geq(cpu_percent[cpu_id], warn)
    THEN [result |-> WARNING,
          messages |-> Append(acc.messages,
              Message("WARNING", cpu_id, cpu_percent[cpu_id], warn))]
    ELSE acc

\* line 148: for cpu_id in cpu_id_list
RECURSIVE CheckLoop(_, _)
CheckLoop(acc, ids) ==
    IF ids = <<>> THEN acc
    ELSE CheckLoop(CheckCpu(acc, Head(ids)), Tail(ids))

\* lines 146-157: the pair check_status returns
CheckStatusOf(ids) ==
    LET r == CheckLoop([result |-> OK, messages |-> <<>>], ids) IN
    [result |-> r.result,
     messages |-> IF r.messages = <<>> THEN <<OkMessage>> ELSE r.messages]

\* main() line 202: exit_code, result_message = check_status()
CheckStatus ==
    /\ pc = "check_status"
    /\ LET r == CheckStatusOf(cpu_id_list) IN
       /\ exit_code' = r.result
       /\ result_message' = r.messages
    /\ pc' = "print"
    /\ trace' = Append(trace, "status")
    /\ UNCHANGED <<options, rates, snapshots, perf_message, process>>

(* ------------------------------------------------------------------ *)
(* main (check_cpu.py 197-204)                                          *)
(* ------------------------------------------------------------------ *)
\* line 203: print(result_message, '|', perf_message)
PrintResult ==
    /\ pc = "print"
    /\ stdout' = Append(stdout, [kind |-> "result",
                                 message |-> result_message,
                                 perf |-> perf_message])
    /\ pc' = "exit"
    /\ trace' = Append(trace, "print")
    /\ UNCHANGED <<options, rates, snapshots, report, slept, stderr, status>>

\* line 204: sys.exit(exit_code)
Exit ==
    /\ pc = "exit"
    /\ status' = exit_code
    /\ pc' = "exited"
    /\ trace' = Append(trace, "exit")
    /\ UNCHANGED <<options, rates, snapshots, report, slept, stdout, stderr>>

(* ------------------------------------------------------------------ *)
(* The program                                                          *)
(* ------------------------------------------------------------------ *)
\* the module globals as lines 58-77 set them, and a process that has not
\* read, slept or written yet
Defaults ==
    /\ cpu_percent = EmptyDict
    /\ io_wait_percent = EmptyDict
    /\ steal_percent = EmptyDict
    /\ cpu_id_list = <<>>
    /\ ctxt_per_second = Zero
    /\ processes_per_second = Zero
    /\ cpu_stats_t1 = EmptyDict
    /\ warn = 95
    /\ crit = 98
    /\ per_cpu_warn = 98
    /\ per_cpu_crit = 100
    /\ io_warn = 90
    /\ io_crit = 98
    /\ io_warn_overall = 100
    /\ io_crit_overall = 100
    /\ steal_warn = 30
    /\ steal_crit = 80
    /\ sample_period = 1
    /\ perfdata_abs = 1
    /\ cpu_stats_t0 = EmptyDict
    /\ perf_message = <<>>
    /\ exit_code = -1
    /\ result_message = <<>>
    /\ procstat = <<>>
    /\ slept = 0
    /\ stdout = <<>>
    /\ stderr = <<>>
    /\ status = -1

\* main() is about to call command_line_validate
Init ==
    /\ Defaults
    /\ pc = "command_line_validate"
    /\ trace = <<>>

Next ==
    \/ CommandLineValidate
    \/ CaptureT0
    \/ Sleep
    \/ CaptureT1
    \/ ComputeRates
    \/ PerformanceData
    \/ CheckStatus
    \/ PrintResult
    \/ Exit

Spec == Init /\ [][Next]_vars

(* ------------------------------------------------------------------ *)
(* The rate computation on every counter combination up to MaxTick      *)
(* ------------------------------------------------------------------ *)
\* the probe started without options: command_line_validate([]) has returned
InitRates ==
    /\ Defaults
    /\ pc = "capture_t0"
    /\ trace = <<"options">>

RateCaptureT0 == CaptureT0In(RateTexts)

RateCaptureT1 == CaptureT1In(RateTexts)

NextRates ==
    \/ RateCaptureT0
    \/ Sleep
    \/ RateCaptureT1
    \/ ComputeRates

SpecRates == InitRates /\ [][NextRates]_vars

(* ------------------------------------------------------------------ *)
(* Vocabulary of the properties                                         *)
(* ------------------------------------------------------------------ *)
Range(s) == {s[i] : i \in DOMAIN s}

\* x <= t for a fraction x and an integer t
Leq(x, t) ==
    IF x.den > 0 THEN x.num <= t * x.den ELSE x.num >= t * x.den

\* x = y for two fractions
FracEq(x, y) == x.num * y.den = y.num * x.den

\* how often an event occurred so far
Count(event) == Len(SelectSeq(trace, LAMBDA e : e = event))

Happened(event) == Count(event) > 0

\* the individual cores among the ids of the late snapshot
Cores == {id \in Range(cpu_id_list) : id # "cpu"}

HasLine(text, tok) == \E l \in Range(text) : l.tok = tok

\* the integers written on the line of `text` that starts with `tok`
NumsOnLine(text, tok) == (CHOOSE l \in Range(text) : l.tok = tok).nums

\* the ten counters written on the line of `id`
CountersOf(text, id) == Pad(NumsOnLine(text, id))

\* both reads returned a text in the kernel's layout
WellFormedReads ==
    /\ Len(procstat) = 2
    /\ \A k \in 1..2 : procstat[k].ok /\ procstat[k].text \notin OddTexts

\* 0 <= x <= 100
InRange(x) == Geq(x, 0) /\ Leq(x, 100)

\* the busy comparisons check_status makes for one id
BusyCritical(id) == Geq(cpu_percent[id], crit)

BusyBreach(id) == Geq(cpu_percent[id], crit) \/ Geq(cpu_percent[id], warn)

\* the worst severity among the busy comparisons of all ids
WorstSeverity ==
    IF \E id \in Range(cpu_id_list) : BusyCritical(id) THEN CRITICAL
    ELSE IF \E id \in Range(cpu_id_list) : BusyBreach(id) THEN WARNING
    ELSE OK

(* ------------------------------------------------------------------ *)
(* C1                                                                   *)
(* ------------------------------------------------------------------ *)
\* C1: the severity check_status returns is the maximum (OK < WARNING <
\* CRITICAL) over all breached checks: a CRITICAL breach decides the result
\* whatever is evaluated after it, and a later WARNING never lowers it.
C1_SeverityIsMaximum ==
    Happened("status") => exit_code = WorstSeverity

(* ------------------------------------------------------------------ *)
(* C2                                                                   *)
(* ------------------------------------------------------------------ *)
\* C2: with per-core-crit = 100 the per-core critical check is off: no
\* individual core (cpuN) is reported with a critical breach, whatever its
\* busy percentage in 0..100.
C2_PerCoreCritDisabled ==
    (Happened("status") /\ per_cpu_crit = 100) =>
        \A i \in DOMAIN result_message :
            result_message[i].cpu_id \in Cores =>
                result_message[i].level # "CRITICAL"

(* ------------------------------------------------------------------ *)
(* C3                                                                   *)
(* ------------------------------------------------------------------ *)
\* C3: check_status evaluates io-wait and steal too: a core whose io-wait
\* percent is >= io_crit or whose steal percent is >= steal_crit gives
\* CRITICAL, one >= io_warn or >= steal_warn gives at least WARNING, and the
\* aggregate id's io-wait is compared with the io-wait-overall thresholds.
C3_IoWaitAndStealEvaluated ==
    Happened("status") =>
        /\ \A id \in Cores :
             (Geq(io_wait_percent[id], io_crit)
                \/ Geq(steal_percent[id], steal_crit)) => exit_code = CRITICAL
        /\ \A id \in Cores :
             (Geq(io_wait_percent[id], io_warn)
                \/ Geq(steal_percent[id], steal_warn))
             => exit_code \in {WARNING, CRITICAL}
        /\ "cpu" \in Range(cpu_id_list) =>
             /\ Geq(io_wait_percent["cpu"], io_crit_overall)
                  => exit_code = CRITICAL
             /\ Geq(io_wait_percent["cpu"], io_warn_overall)
                  => exit_code \in {WARNING, CRITICAL}

(* ------------------------------------------------------------------ *)
(* C4                                                                   *)
(* ------------------------------------------------------------------ *)
\* the late snapshot holds an id the early one does not
LateOnlyId ==
    /\ Count("capture") = 2
    /\ \E id \in Range(cpu_id_list) : Key(id, "all") \notin DOMAIN cpu_stats_t0

\* C4: an id that is in the late snapshot but not in the early one is
\* skipped: the run ends normally, with rates for all other ids, one output
\* line and a severity exit code, and nothing is reported as an error.
C4_LateOnlyIdSkipped ==
    (pc = "exited" /\ LateOnlyId) =>
        /\ stderr = <<>>
        /\ Len(stdout) = 1
        /\ status = exit_code
        /\ status \in {OK, WARNING, CRITICAL}
        /\ \A id \in Range(cpu_id_list) :
             Key(id, "all") \in DOMAIN cpu_stats_t0 => id \in DOMAIN cpu_percent

(* ------------------------------------------------------------------ *)
(* C5                                                                   *)
(* ------------------------------------------------------------------ *)
\* C5: when the statistics source cannot be opened at the first or the
\* second capture, the run stops there without another read, gives exactly
\* one diagnostic message and exits with UNKNOWN (3).
C5_SourceUnavailableIsUnknown ==
    (pc = "exited" /\ \E k \in DOMAIN procstat : ~procstat[k].ok) =>
        /\ ~procstat[Len(procstat)].ok
        /\ Len(stdout) + Len(stderr) = 1
        /\ status = UNKNOWN

(* ------------------------------------------------------------------ *)
(* C6                                                                   *)
(* ------------------------------------------------------------------ *)
\* the three percentages of `id` lie in [0, 100]
AllInRange(id) ==
    /\ InRange(cpu_percent[id])
    /\ InRange(io_wait_percent[id])
    /\ InRange(steal_percent[id])

\* the three percentages of `id` are the integer 0
AllZero(id) ==
    /\ cpu_percent[id] = Zero
    /\ io_wait_percent[id] = Zero
    /\ steal_percent[id] = Zero

\* C6: for every id of both snapshots, with early and late the ten counters
\* on its two lines: if the total grew and no counter went back, the busy,
\* io-wait and steal percentages lie in [0, 100]; if the total did not grow,
\* all three are exactly 0.
C6_PercentagesInRange ==
    \A id \in DOMAIN cpu_percent :
        LET early == CountersOf(procstat[1].text, id)
            late == CountersOf(procstat[2].text, id)
            deltaTotal == SumSeq(late) - SumSeq(early)
        IN
        /\ (deltaTotal > 0 /\ \A i \in 1..10 : late[i] >= early[i])
             => AllInRange(id)
        /\ deltaTotal <= 0 => AllZero(id)

\* a run in which the counters grew and the aggregate id is partly busy,
\* partly in io-wait and partly stolen
C6_Witness ==
    /\ pc = "performance_data"
    /\ \A i \in 1..10 : CountersOf(procstat[2].text, "cpu")[i]
                          >= CountersOf(procstat[1].text, "cpu")[i]
    /\ Geq(cpu_percent["cpu"], 1) /\ Leq(cpu_percent["cpu"], 99)
    /\ Geq(io_wait_percent["cpu"], 1)
    /\ Geq(steal_percent["cpu"], 1)

(* ------------------------------------------------------------------ *)
(* C7                                                                   *)
(* ------------------------------------------------------------------ *)
\* C7: in every run in which option parsing and both reads succeed, the
\* events are, once each and in this order: capture, sleep for the sample
\* period, capture, rate computation, (formatting and evaluation,) printing
\* of one output line, exit; the exit code is the severity check_status
\* returned and is 0, 1 or 2.
C7_RunOrder ==
    (pc = "exited" /\ Happened("options") /\ sample_period > 0
       /\ WellFormedReads) =>
        /\ trace = <<"options", "capture", "sleep", "capture", "rates",
                     "perfdata", "status", "print", "exit">>
        /\ slept = sample_period
        /\ Len(stdout) = 1
        /\ stdout[1].kind = "result"
        /\ status = exit_code
        /\ status \in {OK, WARNING, CRITICAL}

(* ------------------------------------------------------------------ *)
(* C8                                                                   *)
(* ------------------------------------------------------------------ *)
\* C8: the rendering mode selects what performance_data emits: percentages
\* with a '%' suffix in percent mode, raw tick deltas instead in
\* absolute-only mode (-A), both for every id in both mode (-a).
C8_RenderingModes ==
    Happened("perfdata") =>
        /\ perfdata_abs = 1 =>
             \A i \in DOMAIN perf_message : perf_message[i].uom = "%"
        /\ perfdata_abs = 2 =>
             \A i \in DOMAIN perf_message : perf_message[i].uom # "%"
        /\ perfdata_abs = 3 =>
             \A id \in Range(cpu_id_list) :
                /\ \E i \in DOMAIN perf_message :
                     perf_message[i].label[1] = id /\ perf_message[i].uom = "%"
                /\ \E i \in DOMAIN perf_message :
                     perf_message[i].label[1] = id /\ perf_message[i].uom # "%"

(* ------------------------------------------------------------------ *)
(* C9                                                                   *)
(* ------------------------------------------------------------------ *)
\* the dict of a capture holds, under `name`, the integer of the text's
\* `name` line
ScalarFromOwnLine(text, cpu_stats, name) ==
    HasLine(text, name) =>
        /\ Key(name, "") \in DOMAIN cpu_stats
        /\ cpu_stats[Key(name, "")] = NumsOnLine(text, name)[1]

\* the rate is (late - early) / period of the integers on the `name` lines
RateFromOwnLines(rate, name) ==
    FracEq(rate, Frac(NumsOnLine(procstat[2].text, name)[1]
                        - NumsOnLine(procstat[1].text, name)[1],
                      sample_period))

\* C9: the context-switch total a capture records is the integer on the ctxt
\* line itself and the process total the integer on the processes line
\* itself, whatever cpu lines precede; the per-second rates are the
\* late-minus-early differences of those integers over the period.
C9_ScalarsFromOwnLines ==
    /\ Count("capture") >= 1 =>
         /\ ScalarFromOwnLine(procstat[1].text, cpu_stats_t0, "ctxt")
         /\ ScalarFromOwnLine(procstat[1].text, cpu_stats_t0, "processes")
    /\ Count("capture") = 2 =>
         /\ ScalarFromOwnLine(procstat[2].text, cpu_stats_t1, "ctxt")
         /\ ScalarFromOwnLine(procstat[2].text, cpu_stats_t1, "processes")
    /\ Happened("rates") =>
         /\ RateFromOwnLines(ctxt_per_second, "ctxt")
         /\ RateFromOwnLines(processes_per_second, "processes")

(* ------------------------------------------------------------------ *)
(* C10                                                                  *)
(* ------------------------------------------------------------------ *)
\* the ids whose busy percentage reaches warn or crit, in discovery order
Breaching == SelectSeq(cpu_id_list, BusyBreach)

====
